---- MODULE Spec2Model ----
(***************************************************************************)
(* A model of sceptre's output helpers:                                    *)
(*   - sceptre/diffing/diff_writer.py      (DiffWriter, DiffLibWriter,     *)
(*                                          DeepDiffWriter)                *)
(*   - sceptre/cli/helpers/cfn_yaml_loader.py (the CloudFormation tags)    *)
(*   - sceptre/cli/helpers/console_writer.py  (ConsoleWriter)              *)
(*                                                                         *)
(* Python strings are modelled as sequences of one-character strings, so   *)
(* that len(), splitlines(), replace(), split() and sorted() are computed  *)
(* as Python computes them.                                                *)
(***************************************************************************)
EXTENDS Integers, Sequences, FiniteSets, TLC

VARIABLES
    \* ---- DiffWriter (diff_writer.py) ----
    stack_name,         \* self.stack_name
    config_diff,        \* self.config_diff   (DiffLibWriter: a list of strings)
    template_diff,      \* self.template_diff
    is_deployed,        \* self.is_deployed
    generated_config,   \* self.stack_diff.generated_config
    generated_template, \* self.stack_diff.generated_template
    output_format,      \* self.output_format
    collected_lines,    \* self.collected_lines
    output_stream,      \* what has been written to self.output_stream, in order
    dump_diff_calls,    \* number of times dump_diff has been invoked
    pc,                 \* position inside DiffWriter.write()
    \* ---- _tag_constructor (cfn_yaml_loader.py) ----
    l_tag_suffix,       \* the tag_suffix argument
    l_node,             \* the node argument
    l_key,              \* the local tag_suffix once it has its prefix
    l_data,             \* the mapping the generator yields
    l_error,            \* the exception the generator raised
    l_pc,               \* position inside the generator
    \* ---- ConsoleWriter (console_writer.py) ----
    c_value,            \* the value passed to write()
    c_format,           \* output_format
    c_prepared,         \* prepared_value
    c_string,           \* as_string
    c_output,           \* what output_func has been called with, in order
    c_again,            \* a prepared value prepared once more
    c_error,            \* the exception that left write()
    c_pc,               \* position inside ConsoleWriter.write()
    \* ---- DeepDiffWriter.dump_diff (diff_writer.py) ----
    d_diff,             \* diff.to_dict(), the diff argument as a dict
    d_output_format,    \* self.output_format
    d_stripped,         \* diff_with_root_keys_removed
    d_jsonified,        \* jsonified
    d_result,           \* what dump_diff returned
    d_parsed,           \* the JSON output parsed back
    d_pc                \* position inside DeepDiffWriter.dump_diff()

diff_vars == <<stack_name, config_diff, template_diff, is_deployed,
               generated_config, generated_template, output_format,
               collected_lines, output_stream, dump_diff_calls, pc>>
loader_vars == <<l_tag_suffix, l_node, l_key, l_data, l_error, l_pc>>
console_vars == <<c_value, c_format, c_prepared, c_string, c_output, c_again,
                  c_error, c_pc>>

deep_vars == <<d_diff, d_output_format, d_stripped, d_jsonified, d_result, d_parsed, d_pc>>

vars == <<diff_vars, loader_vars, console_vars, deep_vars>>

(***************************************************************************)
(* Bounds of the model.                                                    *)
(***************************************************************************)
\* longest line diff handed to the writer
MaxDiffLines == 2
\* number of "x" characters in the wide diff line (wider than the bars)
WideLen == 84
\* longest sequence node handed to the tag constructor
MaxNodeLen == 2
\* longest list and largest dict handed to the ConsoleWriter
MaxItems == 2

(***************************************************************************)
(* Python str / list helpers.                                              *)
(***************************************************************************)
NL == "\n"

Max(a, b) == IF a >= b THEN a ELSE b

\* c * n
Repeat(c, n) == [i \in 1..n |-> c]

\* all sequences over S of length 0..n
SeqUpTo(S, n) == UNION {[1..k -> S] : k \in 0..n}

\* old in s
Contains(s, old) ==
    \E i \in 1..(Len(s) - Len(old) + 1) : SubSeq(s, i, i + Len(old) - 1) = old

\* s.find(old) + 1: the start of the first occurrence of old in s, 0 when none
Find(s, old) ==
    LET starts == {i \in 1..(Len(s) - Len(old) + 1) : SubSeq(s, i, i + Len(old) - 1) = old}
    IN IF starts = {} THEN 0 ELSE CHOOSE i \in starts : \A j \in starts : i <= j

\* s.replace(old, new): every non-overlapping occurrence, left to right
RECURSIVE Replace(_, _, _)
Replace(s, old, new) ==
    LET i == Find(s, old)
    IN IF i = 0 THEN s
       ELSE SubSeq(s, 1, i - 1) \o new
            \o Replace(SubSeq(s, i + Len(old), Len(s)), old, new)

\* index of the first c in s, 0 when there is none
IndexOf(s, c) ==
    IF \E i \in 1..Len(s) : s[i] = c
    THEN CHOOSE i \in 1..Len(s) : s[i] = c /\ \A j \in 1..(i - 1) : s[j] # c
    ELSE 0

\* s.splitlines() (the only line boundary of the model's alphabet is "\n"):
\* no trailing empty line, "" gives [].
RECURSIVE SplitLines(_)
SplitLines(s) ==
    IF s = <<>> THEN <<>>
    ELSE LET i == IndexOf(s, NL)
         IN IF i = 0 THEN <<s>>
            ELSE <<SubSeq(s, 1, i - 1)>> \o SplitLines(SubSeq(s, i + 1, Len(s)))

\* sep.join(parts)
RECURSIVE Join(_, _)
Join(sep, parts) ==
    IF parts = <<>> THEN <<>>
    ELSE IF Len(parts) = 1 THEN parts[1]
    ELSE parts[1] \o sep \o Join(sep, Tail(parts))

\* itertools.chain.from_iterable(seqs)
RECURSIVE Chain(_)
Chain(seqs) == IF seqs = <<>> THEN <<>> ELSE Head(seqs) \o Chain(Tail(seqs))

(***************************************************************************)
(* DiffWriter: constants and message texts.                                *)
(***************************************************************************)
BarWidth == 80
STAR_BAR == Repeat("*", BarWidth)
LINE_BAR == Repeat("-", BarWidth)

\* "No difference to deployed stack "
NoDifferenceText ==
    <<"N", "o", " ", "d", "i", "f", "f", "e", "r", "e", "n", "c", "e", " ", "t", "o", " ", "d", "e", "p", "l", "o", "y", "e", "d", " ", "s", "t", "a", "c", "k", " ">>
\* "--> Difference detected for stack "
DifferenceDetectedText ==
    <<"-", "-", ">", " ", "D", "i", "f", "f", "e", "r", "e", "n", "c", "e", " ", "d", "e", "t", "e", "c", "t", "e", "d", " ", "f", "o", "r", " ", "s", "t", "a", "c", "k", " ">>
\* "This stack is not deployed yet!"
NotDeployedText ==
    <<"T", "h", "i", "s", " ", "s", "t", "a", "c", "k", " ", "i", "s", " ", "n", "o", "t", " ", "d", "e", "p", "l", "o", "y", "e", "d", " ", "y", "e", "t", "!">>
\* "New Config:"
NewConfigText ==
    <<"N", "e", "w", " ", "C", "o", "n", "f", "i", "g", ":">>
\* "New Template:"
NewTemplateText ==
    <<"N", "e", "w", " ", "T", "e", "m", "p", "l", "a", "t", "e", ":">>
\* "No stack config difference"
NoConfigDifferenceText ==
    <<"N", "o", " ", "s", "t", "a", "c", "k", " ", "c", "o", "n", "f", "i", "g", " ", "d", "i", "f", "f", "e", "r", "e", "n", "c", "e">>
\* "Config difference:"
ConfigDifferenceText ==
    <<"C", "o", "n", "f", "i", "g", " ", "d", "i", "f", "f", "e", "r", "e", "n", "c", "e", ":">>
\* "No template difference"
NoTemplateDifferenceText ==
    <<"N", "o", " ", "t", "e", "m", "p", "l", "a", "t", "e", " ", "d", "i", "f", "f", "e", "r", "e", "n", "c", "e">>
\* "Template difference:"
TemplateDifferenceText ==
    <<"T", "e", "m", "p", "l", "a", "t", "e", " ", "d", "i", "f", "f", "e", "r", "e", "n", "c", "e", ":">>

(***************************************************************************)
(* DiffWriter: inputs.                                                     *)
(***************************************************************************)
\* stack names: "s1", "dev/vpc"
StackNames == {<<"s", "1">>,
               <<"d", "e", "v", "/", "v", "p", "c">>}

\* lines of a line diff (DiffLibWriter's DiffType is List[str]):
\* "+a: 1", a line wider than the bars, and a removed rule of dashes that
\* holds LINE_BAR as a substring.
ShortDiffLine == <<"+", "a", ":", " ", "1">>
WideDiffLine == <<"+">> \o Repeat("x", WideLen)
DashDiffLine == <<"-">> \o Repeat("-", BarWidth)
DiffLines == {ShortDiffLine, WideDiffLine, DashDiffLine}
Diffs == SeqUpTo(DiffLines, MaxDiffLines)

\* StackConfiguration._asdict() as an ordered list of (field, value) pairs
\* stack_name: s1, role_arn: r
StackConfigurations == {<< <<<<"s", "t", "a", "c", "k", "_", "n", "a", "m", "e">>, <<"s", "1">>>>, <<<<"r", "o", "l", "e", "_", "a", "r", "n">>, <<"r">>>> >>}

\* generated templates: "a: 1\nb: 2\n"
Templates == {<<"a", ":", " ", "1", "\n", "b", ":", " ", "2", "\n">>}

OutputFormats == {"json", "yaml", "text"}


(***************************************************************************)
(* DiffWriter: helpers.                                                    *)
(***************************************************************************)
\* DiffLibWriter.has_config_difference / has_template_difference
has_config_difference == Len(config_diff) > 0
has_template_difference == Len(template_diff) > 0

\* a has_difference with its test inverted
has_difference_inverted == ~(has_config_difference \/ has_template_difference)

\* DiffWriter.has_difference
has_difference == has_config_difference \/ has_template_difference

\* DiffWriter._output(*lines): each line gets a line break and is appended
_output(lines) == collected_lines \o [i \in 1..Len(lines) |-> lines[i] \o <<NL>>]

\* DiffLibWriter.dump_diff
dump_diff(diff) == Join(<<NL>>, diff)

\* cfn_flip.dump_yaml of a flat mapping of strings: one "key: value" line each
RECURSIVE DumpYaml(_)
DumpYaml(pairs) ==
    IF pairs = <<>> THEN <<>>
    ELSE pairs[1][1] \o <<":", " ">> \o pairs[1][2] \o <<NL>> \o DumpYaml(Tail(pairs))

\* cfn_flip.dump_json of a flat mapping of strings, indent=4
JsonString(s) == <<"\"">> \o s \o <<"\"">>
JsonMember(p) == Repeat(" ", 4) \o JsonString(p[1]) \o <<":", " ">> \o JsonString(p[2])
DumpJson(pairs) ==
    IF pairs = <<>> THEN <<"{", "}">>
    ELSE <<"{", NL>>
         \o Join(<<",", NL>>, [i \in 1..Len(pairs) |-> JsonMember(pairs[i])])
         \o <<NL, "}">>

\* a _dump_dict that ignores the output format
_dump_dict_yaml_only(dict_to_dump) == DumpYaml(dict_to_dump)

\* DiffWriter._dump_dict: json only for "json", yaml for every other format
_dump_dict(dict_to_dump) ==
    IF output_format = "json" THEN DumpJson(dict_to_dump) ELSE DumpYaml(dict_to_dump)

\* DiffWriter._dump_stack_config
_dump_stack_config(stack_config) == _dump_dict(stack_config)

\* DiffWriter._write_new_stack_details: the lines it outputs
_write_new_stack_details ==
    <<NotDeployedText,
      LINE_BAR,
      NewConfigText,
      <<>>,
      _dump_stack_config(generated_config),
      LINE_BAR,
      NewTemplateText,
      <<>>,
      generated_template>>

\* a _write_config_difference that dumps the template diff
_write_config_difference_of_template ==
    IF ~has_config_difference
    THEN <<NoConfigDifferenceText>>
    ELSE <<ConfigDifferenceText, <<>>, dump_diff(template_diff)>>

\* DiffWriter._write_config_difference: the lines it outputs
_write_config_difference ==
    IF ~has_config_difference
    THEN <<NoConfigDifferenceText>>
    ELSE <<ConfigDifferenceText, <<>>, dump_diff(config_diff)>>

\* DiffWriter._write_template_difference: the lines it outputs
_write_template_difference ==
    IF ~has_template_difference
    THEN <<NoTemplateDifferenceText>>
    ELSE <<TemplateDifferenceText, <<>>, dump_diff(template_diff)>>

\* a compute_max_line_length that measures the accumulated lines unsplit
compute_max_line_length_unsplit ==
    CHOOSE n \in {Len(collected_lines[i]) : i \in 1..Len(collected_lines)} :
        \A i \in 1..Len(collected_lines) : Len(collected_lines[i]) <= n

\* DiffWriter.compute_max_line_length
compute_max_line_length ==
    LET physical == Chain([i \in 1..Len(collected_lines) |-> SplitLines(collected_lines[i])])
    IN CHOOSE n \in {Len(physical[i]) : i \in 1..Len(physical)} :
           \A i \in 1..Len(physical) : Len(physical[i]) <= n

\* the body of the loop of DiffWriter._output_to_stream: the line as written
_output_to_stream_line(line, max_line_length) ==
    IF Contains(line, STAR_BAR)
    THEN Replace(line, STAR_BAR, Repeat("*", max_line_length))
    ELSE IF Contains(line, LINE_BAR)
         THEN Replace(line, LINE_BAR, Repeat("-", max_line_length))
         ELSE line

(***************************************************************************)
(* DiffWriter.write(), one action per statement; pc is the position.       *)
(***************************************************************************)
diff_inputs == <<stack_name, config_diff, template_diff, is_deployed,
                 generated_config, generated_template, output_format>>

\* DiffWriter.__init__
DiffInit ==
    /\ stack_name \in StackNames
    /\ config_diff \in Diffs
    /\ template_diff \in Diffs
    /\ is_deployed \in BOOLEAN
    /\ generated_config \in StackConfigurations
    /\ generated_template \in Templates
    /\ output_format \in OutputFormats
    /\ collected_lines = <<>>
    /\ output_stream = <<>>
    /\ dump_diff_calls = 0
    /\ pc = "write"

\* no DiffWriter has been made
DiffIdle ==
    /\ stack_name = <<>>
    /\ config_diff = <<>>
    /\ template_diff = <<>>
    /\ is_deployed = FALSE
    /\ generated_config = <<>>
    /\ generated_template = <<>>
    /\ output_format = "text"
    /\ collected_lines = <<>>
    /\ output_stream = <<>>
    /\ dump_diff_calls = 0
    /\ pc = "idle"

\* self._output(self.STAR_BAR)
WriteStarBar ==
    /\ pc = "write"
    /\ collected_lines' = _output(<<STAR_BAR>>)
    /\ pc' = "check_difference"
    /\ UNCHANGED <<diff_inputs, loader_vars, console_vars, deep_vars, output_stream, dump_diff_calls>>

\* if not self.has_difference: output the message and return
WriteNoDifference ==
    /\ pc = "check_difference"
    /\ ~has_difference
    /\ collected_lines' = _output(<<NoDifferenceText \o stack_name>>)
    /\ pc' = "returned"
    /\ UNCHANGED <<diff_inputs, loader_vars, console_vars, deep_vars, output_stream, dump_diff_calls>>

\* self._output(f"--> Difference detected for stack {self.stack_name}!")
WriteDifferenceDetected ==
    /\ pc = "check_difference"
    /\ has_difference
    /\ collected_lines' = _output(<<DifferenceDetectedText \o stack_name \o <<"!">> >>)
    /\ pc' = "check_deployed"
    /\ UNCHANGED <<diff_inputs, loader_vars, console_vars, deep_vars, output_stream, dump_diff_calls>>

\* if not self.is_deployed: self._write_new_stack_details(); return
WriteNewStackDetails ==
    /\ pc = "check_deployed"
    /\ ~is_deployed
    /\ collected_lines' = _output(_write_new_stack_details)
    /\ pc' = "returned"
    /\ UNCHANGED <<diff_inputs, loader_vars, console_vars, deep_vars, output_stream, dump_diff_calls>>

\* self._output(self.LINE_BAR), before the config section
WriteConfigBar ==
    /\ pc = "check_deployed"
    /\ is_deployed
    /\ collected_lines' = _output(<<LINE_BAR>>)
    /\ pc' = "config_difference"
    /\ UNCHANGED <<diff_inputs, loader_vars, console_vars, deep_vars, output_stream, dump_diff_calls>>

\* self._write_config_difference()
WriteConfigDifference ==
    /\ pc = "config_difference"
    /\ collected_lines' = _output(_write_config_difference)
    /\ dump_diff_calls' = dump_diff_calls + (IF has_config_difference THEN 1 ELSE 0)
    /\ pc' = "template_bar"
    /\ UNCHANGED <<diff_inputs, loader_vars, console_vars, deep_vars, output_stream>>

\* self._output(self.LINE_BAR), before the template section
WriteTemplateBar ==
    /\ pc = "template_bar"
    /\ collected_lines' = _output(<<LINE_BAR>>)
    /\ pc' = "template_difference"
    /\ UNCHANGED <<diff_inputs, loader_vars, console_vars, deep_vars, output_stream, dump_diff_calls>>

\* self._write_template_difference()
WriteTemplateDifference ==
    /\ pc = "template_difference"
    /\ collected_lines' = _output(_write_template_difference)
    /\ dump_diff_calls' = dump_diff_calls + (IF has_template_difference THEN 1 ELSE 0)
    /\ pc' = "output_to_stream"
    /\ UNCHANGED <<diff_inputs, loader_vars, console_vars, deep_vars, output_stream>>

\* self._output_to_stream(), then write() returns
OutputToStream ==
    /\ pc = "output_to_stream"
    /\ LET max_line_length == compute_max_line_length
       IN output_stream' = output_stream \o
              [i \in 1..Len(collected_lines) |-> _output_to_stream_line(collected_lines[i], max_line_length)]
    /\ pc' = "returned"
    /\ UNCHANGED <<diff_inputs, loader_vars, console_vars, deep_vars, collected_lines, dump_diff_calls>>


(***************************************************************************)
(* Python values and the results of calls.                                 *)
(*   A value is the tuple <<type, content>>; the content of a dict is the  *)
(*   ordered list of its <<key, value>> pairs.                             *)
(*   A call returns, Ok(value), or raises, Raise(exception type, message). *)
(***************************************************************************)
PyStr(s) == <<"str", s>>
PyInt(n) == <<"int", n>>
PyBool(b) == <<"bool", b>>
PyNone == <<"NoneType">>
PyList(xs) == <<"list", xs>>
PyTuple(xs) == <<"tuple", xs>>
PyDict(pairs) == <<"dict", pairs>>
TypeOf(x) == x[1]
ValueOf(x) == x[2]

Ok(x) == <<"ok", x>>
Raise(exc, msg) == <<"raise", exc, msg>>
IsOk(r) == r[1] = "ok"
Returned(r) == r[2]
ExcType(r) == r[2]
ExcMsg(r) == r[3]

\* the results of a list of calls made in order: the first exception raised,
\* else the list of the values
Collect(results) ==
    LET bad == {i \in 1..Len(results) : ~IsOk(results[i])}
    IN IF bad = {}
       THEN Ok([i \in 1..Len(results) |-> Returned(results[i])])
       ELSE results[CHOOSE i \in bad : \A j \in bad : i <= j]

(***************************************************************************)
(* Python's ordering of str: by code point, a proper prefix first.          *)
(***************************************************************************)
\* ord(c) for the digits and letters (the characters of the tag names)
Digits == <<"0", "1", "2", "3", "4", "5", "6", "7", "8", "9">>
UpperCase ==
    <<"A", "B", "C", "D", "E", "F", "G", "H", "I", "J", "K", "L", "M", "N", "O", "P", "Q", "R", "S", "T", "U", "V", "W", "X", "Y", "Z">>
LowerCase ==
    <<"a", "b", "c", "d", "e", "f", "g", "h", "i", "j", "k", "l", "m", "n", "o", "p", "q", "r", "s", "t", "u", "v", "w", "x", "y", "z">>

\* the place of c in chars, 0 when it is not one of them
Place(c, chars) ==
    IF \E i \in 1..Len(chars) : chars[i] = c
    THEN CHOOSE i \in 1..Len(chars) : chars[i] = c
    ELSE 0

Ord(c) ==
    IF Place(c, Digits) > 0 THEN 47 + Place(c, Digits)
    ELSE IF Place(c, UpperCase) > 0 THEN 64 + Place(c, UpperCase)
    ELSE 96 + Place(c, LowerCase)

\* a < b: decided by the first place where they differ, a proper prefix first
StrLess(a, b) ==
    LET n == IF Len(a) < Len(b) THEN Len(a) ELSE Len(b)
        differ == {k \in 1..n : a[k] # b[k]}
    IN IF differ = {} THEN Len(a) < Len(b)
       ELSE LET k == CHOOSE k \in differ : \A j \in differ : k <= j
            IN Ord(a[k]) < Ord(b[k])

\* a sorted that leaves the list as it is
unsorted(xs) == xs

\* sorted(xs): stable, each element inserted after those not greater than it
RECURSIVE sorted(_)
sorted(xs) ==
    IF xs = <<>> THEN <<>>
    ELSE LET front == sorted(SubSeq(xs, 1, Len(xs) - 1))
             x == xs[Len(xs)]
             k == Cardinality({i \in 1..Len(front) : ~StrLess(x, front[i])})
         IN SubSeq(front, 1, k) \o <<x>> \o SubSeq(front, k + 1, Len(front))

\* x in xs
In(x, xs) == \E i \in 1..Len(xs) : xs[i] = x

\* s.startswith(prefix)
StartsWith(s, prefix) == Len(s) >= Len(prefix) /\ SubSeq(s, 1, Len(prefix)) = prefix

(***************************************************************************)
(* cfn_yaml_loader.py                                                      *)
(***************************************************************************)
CFN_TAGS ==
    <<<<"C", "o", "n", "d", "i", "t", "i", "o", "n">>,
      <<"R", "e", "f">>>>

CFN_FNS ==
    <<<<"A", "n", "d">>,
      <<"B", "a", "s", "e", "6", "4">>,
      <<"C", "i", "d", "r">>,
      <<"E", "q", "u", "a", "l", "s">>,
      <<"F", "i", "n", "d", "I", "n", "M", "a", "p">>,
      <<"G", "e", "t", "A", "t", "t">>,
      <<"G", "e", "t", "A", "Z", "s">>,
      <<"I", "f">>,
      <<"I", "m", "p", "o", "r", "t", "V", "a", "l", "u", "e">>,
      <<"J", "o", "i", "n">>,
      <<"N", "o", "t">>,
      <<"O", "r">>,
      <<"S", "e", "l", "e", "c", "t">>,
      <<"S", "p", "l", "i", "t">>,
      <<"S", "u", "b">>,
      <<"T", "r", "a", "n", "s", "f", "o", "r", "m">>>>


\* "Fn::"
FnPrefix == <<"F", "n", ":", ":">>
\* "Fn::GetAtt"
FnGetAtt == <<"F", "n", ":", ":", "G", "e", "t", "A", "t", "t">>
\* "Bad tag: !"
BadTagText == <<"B", "a", "d", " ", "t", "a", "g", ":", " ", "!">>
\* ". Supported tags are: "
SupportedTagsText == <<".", " ", "S", "u", "p", "p", "o", "r", "t", "e", "d", " ", "t", "a", "g", "s", " ", "a", "r", "e", ":", " ">>
\* "Fn::GetAtt does not support complex datastructures"
GetAttComplexText ==
    <<"F", "n", ":", ":", "G", "e", "t", "A", "t", "t", " ", "d", "o", "e", "s", " ", "n", "o", "t", " ", "s", "u", "p", "p", "o", "r", "t", " ", "c", "o", "m", "p", "l", "e", "x", " ", "d", "a", "t", "a", "s", "t", "r", "u", "c", "t", "u", "r", "e", "s">>
\* "Fn::GetAtt only supports string or list values"
GetAttShapeText ==
    <<"F", "n", ":", ":", "G", "e", "t", "A", "t", "t", " ", "o", "n", "l", "y", " ", "s", "u", "p", "p", "o", "r", "t", "s", " ", "s", "t", "r", "i", "n", "g", " ", "o", "r", " ", "l", "i", "s", "t", " ", "v", "a", "l", "u", "e", "s">>
\* "'tuple' object has no attribute 'construct_sequence'"
NoConstructSequenceText ==
    <<"'", "t", "u", "p", "l", "e", "'", " ", "o", "b", "j", "e", "c", "t", " ", "h", "a", "s", " ", "n", "o", " ", "a", "t", "t", "r", "i", "b", "u", "t", "e", " ", "'", "c", "o", "n", "s", "t", "r", "u", "c", "t", "_", "s", "e", "q", "u", "e", "n", "c", "e", "'">>
\* "expected a sequence node, but found mapping"
ExpectedSequenceText ==
    <<"e", "x", "p", "e", "c", "t", "e", "d", " ", "a", " ", "s", "e", "q", "u", "e", "n", "c", "e", " ", "n", "o", "d", "e", ",", " ", "b", "u", "t", " ", "f", "o", "u", "n", "d", " ", "m", "a", "p", "p", "i", "n", "g">>


(***************************************************************************)
(* YAML nodes, as PyYAML's composer hands them to the constructors:        *)
(*   [kind |-> "scalar" | "sequence" | "mapping", tag |-> the resolved     *)
(*    tag, value |-> the text / the child nodes / the (key, value) nodes]  *)
(***************************************************************************)
\* "tag:yaml.org,2002:"
YamlTagPrefix == <<"t", "a", "g", ":", "y", "a", "m", "l", ".", "o", "r", "g", ",", "2", "0", "0", "2", ":">>
StrTag == YamlTagPrefix \o <<"s", "t", "r">>
IntTag == YamlTagPrefix \o <<"i", "n", "t">>
BoolTag == YamlTagPrefix \o <<"b", "o", "o", "l">>
NullTag == YamlTagPrefix \o <<"n", "u", "l", "l">>
SeqTag == YamlTagPrefix \o <<"s", "e", "q">>
MapTag == YamlTagPrefix \o <<"m", "a", "p">>

ScalarNode(tag, text) == <<"scalar", tag, text>>
SequenceNode(tag, children) == <<"sequence", tag, children>>
MappingNode(tag, pairs) == <<"mapping", tag, pairs>>
KindOf(n) == n[1]
TagOf(n) == n[2]
NodeValue(n) == n[3]

\* the objects passed as `loader`: the CfnYamlLoader, or a tuple holding it
TheLoader == <<"CfnYamlLoader">>
TupleOf(x) == <<"tuple", x>>

IsDigit(c) == Place(c, Digits) > 0
DigitValue(c) == Place(c, Digits) - 1

\* int(text) of a decimal literal
RECURSIVE ParseInt(_)
ParseInt(text) ==
    IF Len(text) = 0 THEN 0
    ELSE 10 * ParseInt(SubSeq(text, 1, Len(text) - 1)) + DigitValue(text[Len(text)])

\* s.split(".", 1)
SplitOnce(s, c) ==
    LET i == IndexOf(s, c)
    IN IF i = 0 THEN <<s>> ELSE <<SubSeq(s, 1, i - 1), SubSeq(s, i + 1, Len(s))>>

RECURSIVE construct_object(_, _)
RECURSIVE construct_sequence(_, _)
RECURSIVE construct_mapping(_, _)
RECURSIVE _tag_constructor_resume(_, _, _)

\* SafeLoader.construct_scalar
construct_scalar(loader, node) == Ok(PyStr(NodeValue(node)))

\* SafeLoader.construct_sequence: each child constructed in order
construct_sequence(loader, node) ==
    IF KindOf(node) # "sequence"
    THEN Raise("ConstructorError", ExpectedSequenceText)
    ELSE LET items == Collect([i \in 1..Len(NodeValue(node)) |->
                                  construct_object(loader, NodeValue(node)[i])])
         IN IF IsOk(items) THEN Ok(PyList(Returned(items))) ELSE items

\* SafeLoader.construct_mapping: each key and value constructed in order
construct_mapping(loader, node) ==
    LET pairs == NodeValue(node)
        keys == Collect([i \in 1..Len(pairs) |-> construct_object(loader, pairs[i][1])])
        vals == Collect([i \in 1..Len(pairs) |-> construct_object(loader, pairs[i][2])])
    IN IF ~IsOk(keys) THEN keys
       ELSE IF ~IsOk(vals) THEN vals
       ELSE Ok(PyDict([i \in 1..Len(pairs) |-> <<Returned(keys)[i], Returned(vals)[i]>>]))

\* _getatt_constructor(loader, node); node.value is a str for a scalar node,
\* and a list for a sequence node and for a mapping node
_getatt_constructor(loader, node) ==
    IF KindOf(node) = "scalar"
    THEN LET parts == SplitOnce(NodeValue(node), ".")
         IN Ok(PyList([i \in 1..Len(parts) |-> PyStr(parts[i])]))
    ELSE IF KindOf(node) \in {"sequence", "mapping"}
    THEN IF loader # TheLoader
         THEN Raise("AttributeError", NoConstructSequenceText)
         ELSE LET seq == construct_sequence(loader, node)
              IN IF ~IsOk(seq) THEN seq
                 ELSE IF \E i \in 1..Len(ValueOf(Returned(seq))) :
                             TypeOf(ValueOf(Returned(seq))[i]) # "str"
                      THEN Raise("ValueError", GetAttComplexText)
                      ELSE seq
    ELSE Raise("ValueError", GetAttShapeText)

\* supported_tags=", ".join(sorted(CFN_TAGS + CFN_FNS))
supported_tags == Join(<<",", " ">>, sorted(CFN_TAGS \o CFN_FNS))

\* _tag_constructor up to its yield: an unsupported tag is refused, a function
\* name gets its prefix; the result is the key the mapping will get
_tag_constructor_start(tag_suffix) ==
    IF ~In(tag_suffix, CFN_FNS) /\ ~In(tag_suffix, CFN_TAGS)
    THEN Raise("ValueError",
               BadTagText \o tag_suffix \o SupportedTagsText \o supported_tags)
    ELSE IF In(tag_suffix, CFN_FNS)
         THEN Ok(FnPrefix \o tag_suffix)
         ELSE Ok(tag_suffix)

\* _tag_constructor after its yield: constructor(node), the value stored in
\* data[tag_suffix]
_tag_constructor_resume(loader, tag_suffix, node) ==
    IF tag_suffix = FnGetAtt
    THEN _getatt_constructor(TupleOf(loader), node)
    ELSE IF KindOf(node) = "scalar" THEN construct_scalar(loader, node)
    ELSE IF KindOf(node) = "sequence" THEN construct_sequence(loader, node)
    ELSE construct_mapping(loader, node)

\* the generator run to its end, as yaml.load runs it: the one-key mapping
_tag_constructor(loader, tag_suffix, node) ==
    LET key == _tag_constructor_start(tag_suffix)
    IN IF ~IsOk(key) THEN key
       ELSE LET val == _tag_constructor_resume(loader, Returned(key), node)
            IN IF ~IsOk(val) THEN val
               ELSE Ok(PyDict(<< <<PyStr(Returned(key)), Returned(val)>> >>))

\* BaseConstructor.construct_object: the constructor registered for the tag,
\* else the multi-constructor registered for the "!" prefix
construct_object(loader, node) ==
    IF TagOf(node) = StrTag THEN Ok(PyStr(NodeValue(node)))
    ELSE IF TagOf(node) = IntTag THEN Ok(PyInt(ParseInt(NodeValue(node))))
    ELSE IF TagOf(node) = BoolTag THEN Ok(PyBool(NodeValue(node) = <<"t", "r", "u", "e">>))
    ELSE IF TagOf(node) = NullTag THEN Ok(PyNone)
    ELSE IF TagOf(node) = SeqTag THEN construct_sequence(loader, node)
    ELSE IF TagOf(node) = MapTag THEN construct_mapping(loader, node)
    ELSE IF StartsWith(TagOf(node), <<"!">>)
         THEN _tag_constructor(loader, SubSeq(TagOf(node), 2, Len(TagOf(node))), node)
    ELSE Raise("ConstructorError", TagOf(node))

(***************************************************************************)
(* _tag_constructor as PyYAML drives it: the generator runs to its yield   *)
(* (or raises), and is resumed to fill in the mapping it yielded.          *)
(***************************************************************************)
\* unsupported tag names: "Foo", "ref", "Fn::GetAtt"
UnsupportedTagNames == {<<"F", "o", "o">>,
                        <<"r", "e", "f">>,
                        <<"F", "n", ":", ":", "G", "e", "t", "A", "t", "t">>}
TagNames == {CFN_TAGS[i] : i \in 1..Len(CFN_TAGS)} \cup {CFN_FNS[i] : i \in 1..Len(CFN_FNS)}
                \cup UnsupportedTagNames

\* "MyResource", "Arn", "MyResource.Arn", "a.b.c", "nested", "Name", "1"
MyResourceText == <<"M", "y", "R", "e", "s", "o", "u", "r", "c", "e">>
ArnText == <<"A", "r", "n">>
MyResourceArnText == <<"M", "y", "R", "e", "s", "o", "u", "r", "c", "e", ".", "A", "r", "n">>
DottedText == <<"a", ".", "b", ".", "c">>
NestedText == <<"n", "e", "s", "t", "e", "d">>
NameText == <<"N", "a", "m", "e">>
OneText == <<"1">>

\* the children of a sequence node: MyResource, Arn, 1, [nested], !Ref Name
ChildNodes == {ScalarNode(StrTag, MyResourceText),
               ScalarNode(StrTag, ArnText),
               ScalarNode(IntTag, OneText),
               SequenceNode(SeqTag, <<ScalarNode(StrTag, NestedText)>>),
               ScalarNode(<<"!", "R", "e", "f">>, NameText)}

\* what follows the tag: a scalar, a sequence, a mapping (Name: Arn)
NodeContents ==
    {<<"scalar", text>> : text \in {MyResourceArnText, MyResourceText, DottedText}}
    \cup {<<"sequence", children>> : children \in SeqUpTo(ChildNodes, MaxNodeLen)}
    \cup {<<"mapping", << <<ScalarNode(StrTag, NameText), ScalarNode(StrTag, ArnText)>> >> >>}

NoData == PyNone
NoError == Ok(PyNone)

LoaderInit ==
    /\ l_tag_suffix \in TagNames
    /\ \E content \in NodeContents :
           l_node = <<content[1], <<"!">> \o l_tag_suffix, content[2]>>
    /\ l_key = l_tag_suffix
    /\ l_data = NoData
    /\ l_error = NoError
    /\ l_pc = "called"

\* no tag is being constructed
LoaderIdle ==
    /\ l_tag_suffix = <<>>
    /\ l_node = ScalarNode(StrTag, <<>>)
    /\ l_key = <<>>
    /\ l_data = NoData
    /\ l_error = NoError
    /\ l_pc = "idle"

\* next(generator): lines 48-59
TagConstructorStart ==
    /\ l_pc = "called"
    /\ LET key == _tag_constructor_start(l_tag_suffix)
       IN IF IsOk(key)
          THEN /\ l_key' = Returned(key)
               /\ l_data' = PyDict(<<>>)
               /\ l_pc' = "yielded"
               /\ UNCHANGED l_error
          ELSE /\ l_error' = key
               /\ l_pc' = "raised"
               /\ UNCHANGED <<l_key, l_data>>
    /\ UNCHANGED <<l_tag_suffix, l_node, diff_vars, console_vars, deep_vars>>

\* the generator resumed: lines 61-70
TagConstructorResume ==
    /\ l_pc = "yielded"
    /\ LET val == _tag_constructor_resume(TheLoader, l_key, l_node)
       IN IF IsOk(val)
          THEN /\ l_data' = PyDict(<< <<PyStr(l_key), Returned(val)>> >>)
               /\ l_pc' = "done"
               /\ UNCHANGED l_error
          ELSE /\ l_error' = val
               /\ l_pc' = "raised"
               /\ UNCHANGED l_data
    /\ UNCHANGED <<l_tag_suffix, l_node, l_key, diff_vars, console_vars, deep_vars>>

(***************************************************************************)
(* yaml.load(text, Loader=CfnYamlLoader) on one-line documents of this     *)
(* fragment of YAML (no leading or trailing blanks, no comments, no        *)
(* escapes):                                                               *)
(*   document := "" | node                                                 *)
(*   node     := "!" tag [" " content] | content                           *)
(*   content  := "[" [node {"," " " node}] "]"     a flow sequence         *)
(*             | "\"" characters "\""               a double-quoted scalar  *)
(*             | plain ":" " " node                 a one-pair mapping      *)
(*             | plain                              a plain scalar          *)
(* A plain scalar is resolved to int (decimal digits), bool (true, false), *)
(* null (null, ~) or str.                                                  *)
(***************************************************************************)
\* "true", "false", "null"
TrueText == <<"t", "r", "u", "e">>
FalseText == <<"f", "a", "l", "s", "e">>
NullText == <<"n", "u", "l", "l">>
\* "found unexpected end of stream"
UnexpectedEndText ==
    <<"f", "o", "u", "n", "d", " ", "u", "n", "e", "x", "p", "e", "c", "t", "e", "d", " ", "e", "n", "d", " ", "o", "f", " ", "s", "t", "r", "e", "a", "m">>
\* "expected ',' or ']', but got '<stream end>'"
ExpectedBracketText ==
    <<"e", "x", "p", "e", "c", "t", "e", "d", " ", "'", ",", "'", " ", "o", "r", " ", "'", "]", "'", ",", " ", "b", "u", "t", " ", "g", "o", "t", " ", "'", "<", "s", "t", "r", "e", "a", "m", " ", "e", "n", "d", ">", "'">>
\* "mapping values are not allowed here"
MappingValuesText ==
    <<"m", "a", "p", "p", "i", "n", "g", " ", "v", "a", "l", "u", "e", "s", " ", "a", "r", "e", " ", "n", "o", "t", " ", "a", "l", "l", "o", "w", "e", "d", " ", "h", "e", "r", "e">>


\* s.count(c)
Count(s, c) == Cardinality({i \in 1..Len(s) : s[i] = c})

\* a decimal integer literal of YAML 1.1 (a leading 0 would make it octal)
IsDecimal(text) ==
    /\ Len(text) >= 1
    /\ \A i \in 1..Len(text) : IsDigit(text[i])
    /\ (Len(text) = 1 \/ text[1] # "0")

\* Resolver.resolve for a plain scalar: its implicit tag
resolve(text) ==
    IF IsDecimal(text) THEN IntTag
    ELSE IF text \in {TrueText, FalseText} THEN BoolTag
    ELSE IF text \in {NullText, <<"~">>} THEN NullTag
    ELSE StrTag

\* the items of a flow sequence: cut at the commas outside nested brackets,
\* the blank after a comma dropped
RECURSIVE FlowItems(_)
FlowItems(s) ==
    LET depth(i) == Count(SubSeq(s, 1, i - 1), "[") - Count(SubSeq(s, 1, i - 1), "]")
        commas == {i \in 1..Len(s) : s[i] = "," /\ depth(i) = 0}
        strip(x) == IF Len(x) > 0 /\ x[1] = " " THEN Tail(x) ELSE x
    IN IF commas = {} THEN <<strip(s)>>
       ELSE LET first == CHOOSE i \in commas : \A j \in commas : i <= j
            IN <<strip(SubSeq(s, 1, first - 1))>> \o FlowItems(SubSeq(s, first + 1, Len(s)))

\* Composer.compose_node: the node of a non-empty text, or the scanner's or
\* parser's error
RECURSIVE compose_node(_)
compose_node(text) ==
    IF text[1] = "!"
    THEN LET blank == IndexOf(text, " ")
             tag == IF blank = 0 THEN text ELSE SubSeq(text, 1, blank - 1)
             rest == IF blank = 0 THEN <<>> ELSE SubSeq(text, blank + 1, Len(text))
         IN IF rest = <<>> THEN Ok(ScalarNode(tag, <<>>))
            ELSE LET content == compose_node(rest)
                 IN IF ~IsOk(content) THEN content
                    ELSE Ok(<<KindOf(Returned(content)), tag, NodeValue(Returned(content))>>)
    ELSE IF text[1] = "["
    THEN IF text[Len(text)] # "]" \/ Count(text, "[") # Count(text, "]")
         THEN Raise("ParserError", ExpectedBracketText)
         ELSE LET inside == SubSeq(text, 2, Len(text) - 1)
                  items == IF inside = <<>> THEN <<>> ELSE FlowItems(inside)
                  children == Collect([i \in 1..Len(items) |-> compose_node(items[i])])
              IN IF ~IsOk(children) THEN children
                 ELSE Ok(SequenceNode(SeqTag, Returned(children)))
    ELSE IF text[1] = "\""
    THEN IF Len(text) >= 2 /\ text[Len(text)] = "\"" /\ Count(text, "\"") = 2
         THEN Ok(ScalarNode(StrTag, SubSeq(text, 2, Len(text) - 1)))
         ELSE Raise("ScannerError", UnexpectedEndText)
    ELSE IF Find(text, <<":", " ">>) > 0
    THEN LET colon == Find(text, <<":", " ">>)
             key == SubSeq(text, 1, colon - 1)
             rest == SubSeq(text, colon + 2, Len(text))
             val == compose_node(rest)
         IN IF ~IsOk(val) THEN val
            ELSE IF KindOf(Returned(val)) = "mapping"
            THEN Raise("ScannerError", MappingValuesText)
            ELSE Ok(MappingNode(MapTag, << <<ScalarNode(resolve(key), key), Returned(val)>> >>))
    ELSE Ok(ScalarNode(resolve(text), text))

\* yaml.load(text, Loader=CfnYamlLoader): None for the empty document
yaml_load(text) ==
    IF text = <<>> THEN Ok(PyNone)
    ELSE LET node == compose_node(text)
         IN IF ~IsOk(node) THEN node ELSE construct_object(TheLoader, Returned(node))

(***************************************************************************)
(* console_writer.py                                                       *)
(***************************************************************************)
PRIMITIVE_TYPES == {"str", "int", "float", "NoneType", "bool"}

\* isinstance(x, PRIMITIVE_TYPES)
IsPrimitive(x) == TypeOf(x) \in PRIMITIVE_TYPES

\* str(n) of an int n >= 0
RECURSIVE IntToStr(_)
IntToStr(n) ==
    IF n < 10 THEN <<Digits[n + 1]>>
    ELSE IntToStr(n \div 10) \o <<Digits[(n % 10) + 1]>>

\* str(x) of a primitive
str(x) ==
    IF TypeOf(x) = "str" THEN ValueOf(x)
    ELSE IF TypeOf(x) = "int" THEN IntToStr(ValueOf(x))
    ELSE IF TypeOf(x) = "bool"
         THEN (IF ValueOf(x) THEN <<"T", "r", "u", "e">> ELSE <<"F", "a", "l", "s", "e">>)
    ELSE <<"N", "o", "n", "e">>

\* the exceptions the model's calls raise; all of them derive from Exception
ExceptionTypes == {"ValueError", "AttributeError", "ScannerError", "ParserError",
                   "ConstructorError"}

\* "except yaml.YAMLError:" catches exc
except_YAMLError(exc) == exc \in {"ScannerError", "ParserError", "ConstructorError"}

\* "except Exception:" catches exc
except_Exception(exc) == exc \in ExceptionTypes

RECURSIVE _prepare_value_for_serialization(_)

\* a _prepare_value_for_serialization that returns str(value) for the other types
_prepare_value_stringifying(x) ==
    IF TypeOf(x) = "dict"
    THEN LET pairs == ValueOf(x)
             vals == Collect([i \in 1..Len(pairs) |->
                                 _prepare_value_for_serialization(pairs[i][2])])
         IN IF ~IsOk(vals) THEN vals
            ELSE Ok(PyDict([i \in 1..Len(pairs) |-> <<pairs[i][1], Returned(vals)[i]>>]))
    ELSE IF TypeOf(x) = "list"
    THEN LET items == Collect([i \in 1..Len(ValueOf(x)) |->
                                  _prepare_value_for_serialization(ValueOf(x)[i])])
         IN IF ~IsOk(items) THEN items ELSE Ok(PyList(Returned(items)))
    ELSE IF TypeOf(x) = "str"
    THEN LET loaded == yaml_load(ValueOf(x))
         IN IF IsOk(loaded) THEN loaded
            ELSE IF except_Exception(ExcType(loaded)) THEN Ok(x)
            ELSE loaded
    ELSE Ok(PyStr(str(x)))

\* ConsoleWriter._prepare_value_for_serialization
_prepare_value_for_serialization(x) ==
    IF TypeOf(x) = "dict"
    THEN LET pairs == ValueOf(x)
             vals == Collect([i \in 1..Len(pairs) |->
                                 _prepare_value_for_serialization(pairs[i][2])])
         IN IF ~IsOk(vals) THEN vals
            ELSE Ok(PyDict([i \in 1..Len(pairs) |-> <<pairs[i][1], Returned(vals)[i]>>]))
    ELSE IF TypeOf(x) = "list"
    THEN LET items == Collect([i \in 1..Len(ValueOf(x)) |->
                                  _prepare_value_for_serialization(ValueOf(x)[i])])
         IN IF ~IsOk(items) THEN items ELSE Ok(PyList(Returned(items)))
    ELSE IF TypeOf(x) = "str"
    THEN LET loaded == yaml_load(ValueOf(x))
         IN IF IsOk(loaded) THEN loaded
            ELSE IF except_Exception(ExcType(loaded)) THEN Ok(x)
            ELSE loaded
    ELSE Ok(x)

\* the items of xs without repeats, in the order of their first occurrence
RECURSIVE FirstSeen(_)
FirstSeen(xs) ==
    IF xs = <<>> THEN <<>>
    ELSE LET front == FirstSeen(SubSeq(xs, 1, Len(xs) - 1))
         IN IF In(xs[Len(xs)], front) THEN front ELSE Append(front, xs[Len(xs)])

\* d.get(key) of a dict's pairs
Get(pairs, key) ==
    IF \E i \in 1..Len(pairs) : pairs[i][1] = key
    THEN pairs[CHOOSE i \in 1..Len(pairs) : pairs[i][1] = key][2]
    ELSE PyNone

\* The strings the external renderers return are kept as what was rendered:
\*   <<"table", headers, rows>>   tabulate: the header cells and the rows of cells
\*   <<"yaml", x>>                yaml.safe_dump(x, default_flow_style=False,
\*                                               explicit_start=True)
\*   <<"json", x>>                json.dumps(x, indent=4, sort_keys=True, default=str)
\*   <<"text", characters>>       a str built here

\* tabulate(dicts, headers='keys'): a column for each key
TabulateDicts(dicts) ==
    LET keys == FirstSeen(Chain([i \in 1..Len(dicts) |->
                    [j \in 1..Len(ValueOf(dicts[i])) |-> ValueOf(dicts[i])[j][1]]]))
    IN <<"table", keys,
         [i \in 1..Len(dicts) |-> [k \in 1..Len(keys) |-> Get(ValueOf(dicts[i]), keys[k])]]>>

\* tabulate(list(d.items()), headers=('key', 'value'))
TabulateItems(pairs) ==
    <<"table", <<PyStr(<<"k", "e", "y">>), PyStr(<<"v", "a", "l", "u", "e">>)>>, pairs>>

\* ConsoleWriter._convert_to_json
_convert_to_json(x) == <<"json", x>>

\* ConsoleWriter._convert_to_yaml
_convert_to_yaml(x) == <<"yaml", x>>

\* a _convert_to_text that tries the table of mappings first
_convert_to_text_table_first(x) ==
    IF TypeOf(x) = "list" /\ \A i \in 1..Len(ValueOf(x)) : TypeOf(ValueOf(x)[i]) = "dict"
    THEN TabulateDicts(ValueOf(x))
    ELSE IF TypeOf(x) = "list" /\ \A i \in 1..Len(ValueOf(x)) : IsPrimitive(ValueOf(x)[i])
    THEN <<"text", Join(<<NL>>, [i \in 1..Len(ValueOf(x)) |-> str(ValueOf(x)[i])])>>
    ELSE IF TypeOf(x) = "dict" /\ \A i \in 1..Len(ValueOf(x)) : IsPrimitive(ValueOf(x)[i][2])
    THEN TabulateItems(ValueOf(x))
    ELSE _convert_to_yaml(x)

\* ConsoleWriter._convert_to_text
_convert_to_text(x) ==
    IF TypeOf(x) = "list" /\ \A i \in 1..Len(ValueOf(x)) : IsPrimitive(ValueOf(x)[i])
    THEN <<"text", Join(<<NL>>, [i \in 1..Len(ValueOf(x)) |-> str(ValueOf(x)[i])])>>
    ELSE IF TypeOf(x) = "list" /\ \A i \in 1..Len(ValueOf(x)) : TypeOf(ValueOf(x)[i]) = "dict"
    THEN TabulateDicts(ValueOf(x))
    ELSE IF TypeOf(x) = "dict" /\ \A i \in 1..Len(ValueOf(x)) : IsPrimitive(ValueOf(x)[i][2])
    THEN TabulateItems(ValueOf(x))
    ELSE _convert_to_yaml(x)

\* self._stringify = getattr(self, f'_convert_to_{output_format}')
_stringify(fmt, x) ==
    IF fmt = "json" THEN _convert_to_json(x)
    ELSE IF fmt = "yaml" THEN _convert_to_yaml(x)
    ELSE _convert_to_text(x)

(***************************************************************************)
(* ConsoleWriter: inputs.                                                  *)
(***************************************************************************)
\* the strings: '', 'abc', '12', '"12"', '"ab', '[a, 1]', '["1"]'
\*              '!Ref a', '!Foo a', '!GetAtt a.b', '!GetAtt [a, [b]]', 'k: v', 'a: b: c'
Texts ==
    {<<>>,
     <<"a", "b", "c">>,
     <<"1", "2">>,
     <<"\"", "1", "2", "\"">>,
     <<"\"", "a", "b">>,
     <<"[", "a", ",", " ", "1", "]">>,
     <<"[", "\"", "1", "\"", "]">>,
     <<"!", "R", "e", "f", " ", "a">>,
     <<"!", "F", "o", "o", " ", "a">>,
     <<"!", "G", "e", "t", "A", "t", "t", " ", "a", ".", "b">>,
     <<"!", "G", "e", "t", "A", "t", "t", " ", "[", "a", ",", " ", "[", "b", "]", "]">>,
     <<"k", ":", " ", "v">>,
     <<"a", ":", " ", "b", ":", " ", "c">>}

Primitives == {PyStr(text) : text \in Texts} \cup {PyInt(7), PyNone, PyBool(TRUE)}

\* the keys of the mappings, in order: "a", "b", "c", ...
Keys == [i \in 1..(MaxItems + 1) |-> PyStr(<<LowerCase[i]>>)]

Lists(S) == {PyList(xs) : xs \in SeqUpTo(S, MaxItems)}
Dicts(S) == {PyDict([i \in 1..Len(xs) |-> <<Keys[i], xs[i]>>]) : xs \in SeqUpTo(S, MaxItems)}

\* nested values: a list mixing a primitive and a mapping, a mapping holding a
\* list, a list of two mappings
Nested ==
    {PyList(<<p, PyDict(<< <<Keys[1], q>> >>)>>) : p \in Primitives, q \in Primitives}
    \cup {PyDict(<< <<Keys[1], PyList(<<p>>)>>, <<Keys[2], q>> >>) : p \in Primitives, q \in Primitives}
    \cup {PyList(<<PyDict(<< <<Keys[1], p>> >>), PyDict(<< <<Keys[2], q>> >>)>>) :
              p \in Primitives, q \in Primitives}

Values == Primitives \cup Lists(Primitives) \cup Dicts(Primitives) \cup Nested

NoString == <<"none">>

\* ConsoleWriter.__init__ and the value write() is called with
ConsoleInit ==
    /\ c_value \in Values
    /\ c_format \in OutputFormats
    /\ c_prepared = PyNone
    /\ c_string = NoString
    /\ c_output = <<>>
    /\ c_again = PyNone
    /\ c_error = NoError
    /\ c_pc = "write"

\* no ConsoleWriter has been made
ConsoleIdle ==
    /\ c_value = PyNone
    /\ c_format = "text"
    /\ c_prepared = PyNone
    /\ c_string = NoString
    /\ c_output = <<>>
    /\ c_again = PyNone
    /\ c_error = NoError
    /\ c_pc = "idle"

\* prepared_value = self._prepare_value_for_serialization(value)
ConsolePrepare ==
    /\ c_pc = "write"
    /\ LET r == _prepare_value_for_serialization(c_value)
       IN IF IsOk(r)
          THEN /\ c_prepared' = Returned(r)
               /\ c_pc' = "prepared"
               /\ UNCHANGED c_error
          ELSE /\ c_error' = r
               /\ c_pc' = "raised"
               /\ UNCHANGED c_prepared
    /\ UNCHANGED <<c_value, c_format, c_string, c_output, c_again, diff_vars, loader_vars, deep_vars>>

\* as_string = self._stringify(prepared_value)
ConsoleStringify ==
    /\ c_pc = "prepared"
    /\ c_string' = _stringify(c_format, c_prepared)
    /\ c_pc' = "stringified"
    /\ UNCHANGED <<c_value, c_format, c_prepared, c_output, c_again, c_error,
                   diff_vars, loader_vars, deep_vars>>

\* self._output(as_string), then write() returns
ConsoleOutput ==
    /\ c_pc = "stringified"
    /\ c_output' = Append(c_output, c_string)
    /\ c_pc' = "returned"
    /\ UNCHANGED <<c_value, c_format, c_prepared, c_string, c_again, c_error,
                   diff_vars, loader_vars, deep_vars>>

\* the prepared value given to _prepare_value_for_serialization once more
ConsolePrepareAgain ==
    /\ c_pc = "returned"
    /\ LET r == _prepare_value_for_serialization(c_prepared)
       IN IF IsOk(r)
          THEN /\ c_again' = Returned(r)
               /\ c_pc' = "prepared_again"
               /\ UNCHANGED c_error
          ELSE /\ c_error' = r
               /\ c_pc' = "raised"
               /\ UNCHANGED c_again
    /\ UNCHANGED <<c_value, c_format, c_prepared, c_string, c_output, diff_vars, loader_vars, deep_vars>>

(***************************************************************************)
(* diff_writer.py: DeepDiffWriter.dump_diff.  The diff handed over is what  *)
(* DeepDiff.to_dict() gives: a dict from report names to dicts keyed by    *)
(* paths ("root['a']"), whose values hold the compared values themselves.   *)
(***************************************************************************)
\* a set of DeepDiff (SetOrdered): its items in their order
PySet(xs) == <<"set", xs>>

\* 'root'
RootText == <<"r", "o", "o", "t">>

\* the dict after result[key] = value
SetItem(pairs, key, val) ==
    IF \E i \in 1..Len(pairs) : pairs[i][1] = key
    THEN [pairs EXCEPT ![CHOOSE i \in 1..Len(pairs) : pairs[i][1] = key] = <<key, val>>]
    ELSE Append(pairs, <<key, val>>)

\* the dict made by assigning the items one after the other
RECURSIVE FromItems(_)
FromItems(items) ==
    IF items = <<>> THEN <<>>
    ELSE SetItem(FromItems(SubSeq(items, 1, Len(items) - 1)),
                 items[Len(items)][1], items[Len(items)][2])

\* new_key = key[4:] if isinstance(key, str) and key.startswith('root') else key
new_key(key) ==
    IF TypeOf(key) = "str" /\ StartsWith(ValueOf(key), RootText)
    THEN PyStr(SubSeq(ValueOf(key), 5, Len(ValueOf(key))))
    ELSE key

RECURSIVE _remove_root_key_prefixes_recursively(_)

\* a _remove_root_key_prefixes_recursively that does not descend into lists
_remove_root_key_prefixes_of_dicts(obj) ==
    IF TypeOf(obj) = "dict"
    THEN PyDict(FromItems([i \in 1..Len(ValueOf(obj)) |->
                              <<new_key(ValueOf(obj)[i][1]),
                                _remove_root_key_prefixes_recursively(ValueOf(obj)[i][2])>>]))
    ELSE obj

\* DeepDiffWriter._remove_root_key_prefixes_recursively
_remove_root_key_prefixes_recursively(obj) ==
    IF TypeOf(obj) = "dict"
    THEN PyDict(FromItems([i \in 1..Len(ValueOf(obj)) |->
                              <<new_key(ValueOf(obj)[i][1]),
                                _remove_root_key_prefixes_recursively(ValueOf(obj)[i][2])>>]))
    ELSE IF TypeOf(obj) = "list"
    THEN PyList([i \in 1..Len(ValueOf(obj)) |->
                    _remove_root_key_prefixes_recursively(ValueOf(obj)[i])])
    ELSE obj

\* json.dumps: the key of an object member; str as it is, int, bool and None
\* as their JSON literals
json_key(key) ==
    IF TypeOf(key) = "str" THEN ValueOf(key)
    ELSE IF TypeOf(key) = "int" THEN IntToStr(ValueOf(key))
    ELSE IF TypeOf(key) = "bool"
         THEN (IF ValueOf(key) THEN TrueText ELSE FalseText)
    ELSE NullText

\* the line break and indentation before an item at a nesting level
JsonIndent(level) == <<NL>> \o Repeat(" ", 4 * level)

\* json.dumps(obj, default=json_convertor_default(...), indent=4) at a nesting
\* level: a tuple is written as an array, and so is a set, which the default
\* converts to a list.  The strings of the model hold no character that JSON
\* escapes.
RECURSIVE JsonEncode(_, _)
JsonEncode(obj, level) ==
    IF TypeOf(obj) = "dict"
    THEN IF ValueOf(obj) = <<>> THEN <<"{", "}">>
         ELSE <<"{">> \o JsonIndent(level + 1)
              \o Join(<<",">> \o JsonIndent(level + 1),
                      [i \in 1..Len(ValueOf(obj)) |->
                          JsonString(json_key(ValueOf(obj)[i][1])) \o <<":", " ">>
                          \o JsonEncode(ValueOf(obj)[i][2], level + 1)])
              \o JsonIndent(level) \o <<"}">>
    ELSE IF TypeOf(obj) \in {"list", "tuple", "set"}
    THEN IF ValueOf(obj) = <<>> THEN <<"[", "]">>
         ELSE <<"[">> \o JsonIndent(level + 1)
              \o Join(<<",">> \o JsonIndent(level + 1),
                      [i \in 1..Len(ValueOf(obj)) |-> JsonEncode(ValueOf(obj)[i], level + 1)])
              \o JsonIndent(level) \o <<"]">>
    ELSE IF TypeOf(obj) = "str" THEN JsonString(ValueOf(obj))
    ELSE IF TypeOf(obj) = "int" THEN IntToStr(ValueOf(obj))
    ELSE IF TypeOf(obj) = "bool" THEN (IF ValueOf(obj) THEN TrueText ELSE FalseText)
    ELSE NullText

json_dumps(obj) == JsonEncode(obj, 0)

\* the first position from i on that holds no blank, Len(s) + 1 if none
SkipBlank(s, i) ==
    LET rest == {j \in i..Len(s) : s[j] \notin {" ", NL}}
    IN IF rest = {} THEN Len(s) + 1
       ELSE CHOOSE j \in rest : \A k \in rest : j <= k

\* the first position from i on that holds c
NextOf(s, i, c) ==
    LET found == {j \in i..Len(s) : s[j] = c}
    IN CHOOSE j \in found : \A k \in found : j <= k

\* the first position from i on that holds no digit
EndOfDigits(s, i) ==
    LET rest == {j \in i..Len(s) : ~IsDigit(s[j])}
    IN IF rest = {} THEN Len(s) + 1
       ELSE CHOOSE j \in rest : \A k \in rest : j <= k

\* JSONDecoder: the value that starts at position i of s (after blanks), and
\* the position after it; an object keeps the last of two equal names
RECURSIVE JsonParse(_, _)
RECURSIVE JsonParseItems(_, _, _)
RECURSIVE JsonParseMembers(_, _, _)
JsonParse(s, start) ==
    LET i == SkipBlank(s, start)
    IN IF s[i] = "\""
       THEN <<PyStr(SubSeq(s, i + 1, NextOf(s, i + 1, "\"") - 1)), NextOf(s, i + 1, "\"") + 1>>
       ELSE IF s[i] = "["
       THEN IF s[SkipBlank(s, i + 1)] = "]"
            THEN <<PyList(<<>>), SkipBlank(s, i + 1) + 1>>
            ELSE JsonParseItems(s, i + 1, <<>>)
       ELSE IF s[i] = "{"
       THEN IF s[SkipBlank(s, i + 1)] = "}"
            THEN <<PyDict(<<>>), SkipBlank(s, i + 1) + 1>>
            ELSE JsonParseMembers(s, i + 1, <<>>)
       ELSE IF s[i] = "n" THEN <<PyNone, i + Len(NullText)>>
       ELSE IF s[i] = "t" THEN <<PyBool(TRUE), i + Len(TrueText)>>
       ELSE IF s[i] = "f" THEN <<PyBool(FALSE), i + Len(FalseText)>>
       ELSE <<PyInt(ParseInt(SubSeq(s, i, EndOfDigits(s, i) - 1))), EndOfDigits(s, i)>>

JsonParseItems(s, start, items) ==
    LET item == JsonParse(s, start)
        i == SkipBlank(s, item[2])
    IN IF s[i] = ","
       THEN JsonParseItems(s, i + 1, Append(items, item[1]))
       ELSE <<PyList(Append(items, item[1])), i + 1>>

JsonParseMembers(s, start, pairs) ==
    LET name == JsonParse(s, start)
        colon == SkipBlank(s, name[2])
        val == JsonParse(s, colon + 1)
        i == SkipBlank(s, val[2])
    IN IF s[i] = ","
       THEN JsonParseMembers(s, i + 1, SetItem(pairs, name[1], val[1]))
       ELSE <<PyDict(SetItem(pairs, name[1], val[1])), i + 1>>

json_loads(s) == JsonParse(s, 1)[1]

\* DeepDiffWriter.dump_diff, line by line
dump_diff_stripped(diff_as_dict) == _remove_root_key_prefixes_recursively(diff_as_dict)
dump_diff_jsonified(diff_with_root_keys_removed) == json_dumps(diff_with_root_keys_removed)
\* the YAML text is kept as what was dumped: <<"yaml", loaded>>
DeepDiffWriter_dump_diff(fmt, diff_as_dict) ==
    LET jsonified == dump_diff_jsonified(dump_diff_stripped(diff_as_dict))
    IN IF fmt = "json" THEN <<"json", jsonified>>
       ELSE <<"yaml", json_loads(jsonified)>>

(***************************************************************************)
(* The diffs handed to dump_diff.                                          *)
(***************************************************************************)
\* "root['a']", "['a']", "rootroot", "root", "root['b']"
RootAText == <<"r", "o", "o", "t", "[", "'", "a", "'", "]">>
AText == <<"[", "'", "a", "'", "]">>
RootRootText == <<"r", "o", "o", "t", "r", "o", "o", "t">>
RootBText == <<"r", "o", "o", "t", "[", "'", "b", "'", "]">>
ValuesChangedText == <<"v", "a", "l", "u", "e", "s", "_", "c", "h", "a", "n", "g", "e", "d">>
ItemAddedText == <<"d", "i", "c", "t", "i", "o", "n", "a", "r", "y", "_", "i", "t", "e", "m", "_", "a", "d", "d", "e", "d">>
TypeChangesText == <<"t", "y", "p", "e", "_", "c", "h", "a", "n", "g", "e", "s">>
NewValueText == <<"n", "e", "w", "_", "v", "a", "l", "u", "e">>

\* keys of a dict of the diff: paths, a name that starts with "rootroot", a
\* name with no prefix, an int
DeepKeys == {PyStr(RootAText), PyStr(AText), PyStr(RootRootText), PyStr(RootText), PyInt(1)}
DeepLeaves == {PyInt(1), PyStr(RootText)}

\* dicts of up to MaxItems distinct keys
DeepDicts ==
    {PyDict([i \in 1..Len(ks) |-> <<ks[i], vs[i]>>]) :
        <<ks, vs>> \in UNION {{<<k, v>> : k \in {x \in [1..n -> DeepKeys] :
                                                    \A i, j \in 1..n : i # j => x[i] # x[j]},
                                         v \in [1..n -> DeepLeaves]} : n \in 0..MaxItems}}

\* a report of the diff around d: d itself; d under a report name; d as an
\* item of a list; d inside a tuple; d next to a set of paths
DeepDiffs ==
    DeepDicts
    \cup {PyDict(<< <<PyStr(ValuesChangedText), d>> >>) : d \in DeepDicts}
    \cup {PyDict(<< <<PyStr(RootAText), PyList(<<d, PyInt(1)>>)>> >>) : d \in DeepDicts}
    \cup {PyDict(<< <<PyStr(TypeChangesText),
                      PyDict(<< <<PyStr(RootText),
                                  PyDict(<< <<PyStr(NewValueText), PyTuple(<<d>>)>> >>)>> >>)>> >>) :
             d \in DeepDicts}
    \cup {PyDict(<< <<PyStr(ItemAddedText), PySet(<<PyStr(RootBText)>>)>>,
                    <<PyStr(ValuesChangedText), d>> >>) : d \in DeepDicts}

NoJson == <<>>
NoResult == <<"none", <<>>>>

\* dump_diff(diff) called on a DeepDiffWriter
DeepInit ==
    /\ d_diff \in DeepDiffs
    /\ d_output_format \in OutputFormats
    /\ d_stripped = PyNone
    /\ d_jsonified = NoJson
    /\ d_result = NoResult
    /\ d_parsed = PyNone
    /\ d_pc = "dump_diff"

\* no DeepDiffWriter is at work
DeepIdle ==
    /\ d_diff = PyDict(<<>>)
    /\ d_output_format = "text"
    /\ d_stripped = PyNone
    /\ d_jsonified = NoJson
    /\ d_result = NoResult
    /\ d_parsed = PyNone
    /\ d_pc = "idle"

\* lines 177-178
RemoveRootKeyPrefixes ==
    /\ d_pc = "dump_diff"
    /\ d_stripped' = dump_diff_stripped(d_diff)
    /\ d_pc' = "stripped"
    /\ UNCHANGED <<d_diff, d_output_format, d_jsonified, d_result, d_parsed,
                   diff_vars, loader_vars, console_vars>>

\* lines 182-188
Jsonify ==
    /\ d_pc = "stripped"
    /\ d_jsonified' = dump_diff_jsonified(d_stripped)
    /\ d_pc' = "jsonified"
    /\ UNCHANGED <<d_diff, d_output_format, d_stripped, d_result, d_parsed,
                   diff_vars, loader_vars, console_vars>>

\* lines 189-190
ReturnJson ==
    /\ d_pc = "jsonified"
    /\ d_output_format = "json"
    /\ d_result' = <<"json", d_jsonified>>
    /\ d_pc' = "returned"
    /\ UNCHANGED <<d_diff, d_output_format, d_stripped, d_jsonified, d_parsed,
                   diff_vars, loader_vars, console_vars>>

\* lines 194-195
ReturnYaml ==
    /\ d_pc = "jsonified"
    /\ d_output_format # "json"
    /\ d_result' = <<"yaml", json_loads(d_jsonified)>>
    /\ d_pc' = "returned"
    /\ UNCHANGED <<d_diff, d_output_format, d_stripped, d_jsonified, d_parsed,
                   diff_vars, loader_vars, console_vars>>

\* the JSON output parsed back by the one who reads it
ParseBack ==
    /\ d_pc = "returned"
    /\ d_result[1] = "json"
    /\ d_parsed' = json_loads(d_result[2])
    /\ d_pc' = "parsed"
    /\ UNCHANGED <<d_diff, d_output_format, d_stripped, d_jsonified, d_result,
                   diff_vars, loader_vars, console_vars>>

(***************************************************************************)
(* Properties of DiffWriter.write(), checked under SpecDiff.               *)
(***************************************************************************)
StarBarLine == STAR_BAR \o <<NL>>
LineBarLine == LINE_BAR \o <<NL>>
IsSeparator(line) == line \in {StarBarLine, LineBarLine}

\* the diffs differ somewhere
SomeDifference == config_diff # <<>> \/ template_diff # <<>>

\* s is the start of t
IsPrefix(s, t) == Len(s) <= Len(t) /\ SubSeq(t, 1, Len(s)) = s

\* the accumulated lines that are not empty lines
NonBlank(lines) == SelectSeq(lines, LAMBDA line : line # <<NL>>)

\* C1: on every path through write(), when write() returns every accumulated
\* line has been written to the output stream once, in the order of
\* accumulation (a separator in its stretched form).
C1_AllLinesWrittenOnReturn ==
    pc = "returned" =>
        /\ Len(output_stream) = Len(collected_lines)
        /\ \A i \in 1..Len(collected_lines) :
               output_stream[i] = _output_to_stream_line(collected_lines[i],
                                                         compute_max_line_length)

\* the physical lines of the report that are not separators, and the longest
Max0(S) == IF S = {} THEN 0 ELSE CHOOSE n \in S : \A m \in S : m <= n
ContentLines ==
    UNION {{SplitLines(collected_lines[i])[k] :
                k \in 1..Len(SplitLines(collected_lines[i]))} :
           i \in {j \in 1..Len(collected_lines) : ~IsSeparator(collected_lines[j])}}
LongestContentLine == Max0({Len(line) : line \in ContentLines})

\* the separators as written to the stream: <<character, length>> of each
WrittenSeparatorsAre(width) ==
    \A i \in 1..Len(collected_lines) :
        /\ collected_lines[i] = StarBarLine => output_stream[i] = Repeat("*", width) \o <<NL>>
        /\ collected_lines[i] = LineBarLine => output_stream[i] = Repeat("-", width) \o <<NL>>

DeployedDifferenceWritten ==
    /\ pc = "returned"
    /\ is_deployed
    /\ SomeDifference

\* C2 as stated: for a deployed stack with a difference, every separator
\* written to the stream is exactly as long as the longest content line.
C2_SeparatorsAsLongAsContent ==
    DeployedDifferenceWritten => WrittenSeparatorsAre(LongestContentLine)

\* C2 amended: for a deployed stack with a difference, every separator written
\* to the stream is exactly as long as the longest content line, and never
\* shorter than the 80 characters of the markers.
C2_SeparatorsStretchedNeverShrunk ==
    DeployedDifferenceWritten => WrittenSeparatorsAre(Max(LongestContentLine, BarWidth))

C2_Witness ==
    /\ DeployedDifferenceWritten
    /\ LongestContentLine > BarWidth
    /\ Len(output_stream) >= 6
    /\ output_stream[1] = Repeat("*", LongestContentLine) \o <<NL>>

\* C6: with an empty config diff, an empty template diff and a deployed stack
\* the report is the star bar and "No difference to deployed stack <name>",
\* and nothing else is ever accumulated.
NoDifferenceReport == <<StarBarLine, NoDifferenceText \o stack_name \o <<NL>> >>

C6_NoDifferenceReport ==
    (pc # "idle" /\ is_deployed /\ ~SomeDifference) =>
        /\ IsPrefix(collected_lines, NoDifferenceReport)
        /\ pc = "returned" => collected_lines = NoDifferenceReport

C6_Witness ==
    /\ pc = "returned"
    /\ is_deployed
    /\ ~SomeDifference
    /\ Len(collected_lines) = 2

\* C7: for a stack that is not deployed and has a difference, the report holds
\* the dump of generated_config under "New Config:" and generated_template
\* under "New Template:", none of the difference sections, and dump_diff is
\* never called.
DifferenceSectionLines ==
    {ConfigDifferenceText \o <<NL>>, TemplateDifferenceText \o <<NL>>,
     NoConfigDifferenceText \o <<NL>>, NoTemplateDifferenceText \o <<NL>>}

ConfigDumpInFormat ==
    IF output_format = "json" THEN DumpJson(generated_config) ELSE DumpYaml(generated_config)

C7_NewStackReport ==
    (pc # "idle" /\ ~is_deployed /\ SomeDifference) =>
        /\ dump_diff_calls = 0
        /\ \A i \in 1..Len(collected_lines) : collected_lines[i] \notin DifferenceSectionLines
        /\ pc = "returned" =>
               \E i, j \in 1..Len(collected_lines) :
                   /\ i + 2 < j
                   /\ j + 2 = Len(collected_lines)
                   /\ collected_lines[i] = NewConfigText \o <<NL>>
                   /\ collected_lines[i + 2] = ConfigDumpInFormat \o <<NL>>
                   /\ collected_lines[j] = NewTemplateText \o <<NL>>
                   /\ collected_lines[j + 2] = generated_template \o <<NL>>

C7_Witness ==
    /\ pc = "returned"
    /\ ~is_deployed
    /\ config_diff # <<>>
    /\ output_format = "json"
    /\ Len(collected_lines) = 11

\* C8: for a deployed stack with a difference the lines are accumulated in
\* this order: star bar, "--> Difference detected for stack <name>!", line
\* bar, the config section, line bar, the template section; a section is its
\* "No ... difference" line when its diff is empty, else its header followed
\* by the dumped diff.
ConfigSection ==
    IF config_diff = <<>>
    THEN <<NoConfigDifferenceText \o <<NL>> >>
    ELSE <<ConfigDifferenceText \o <<NL>>, Join(<<NL>>, config_diff) \o <<NL>> >>

TemplateSection ==
    IF template_diff = <<>>
    THEN <<NoTemplateDifferenceText \o <<NL>> >>
    ELSE <<TemplateDifferenceText \o <<NL>>, Join(<<NL>>, template_diff) \o <<NL>> >>

DifferenceReport ==
    <<StarBarLine, DifferenceDetectedText \o stack_name \o <<"!", NL>>, LineBarLine>>
    \o ConfigSection \o <<LineBarLine>> \o TemplateSection

C8_SectionsInOrder ==
    (pc # "idle" /\ is_deployed /\ SomeDifference) =>
        /\ IsPrefix(NonBlank(collected_lines), DifferenceReport)
        /\ pc \in {"output_to_stream", "returned"} =>
               NonBlank(collected_lines) = DifferenceReport

C8_Witness ==
    /\ pc = "returned"
    /\ is_deployed
    /\ config_diff # <<>>
    /\ template_diff = <<>>
    /\ Len(collected_lines) = 8

(***************************************************************************)
(* Properties of _tag_constructor, checked under SpecLoader.               *)
(***************************************************************************)
\* "GetAtt"
GetAttName == <<"G", "e", "t", "A", "t", "t">>

\* a child of a sequence node that constructs a str
IsStringNode(n) == KindOf(n) = "scalar" /\ TagOf(n) = StrTag

GetAttMapping(parts) ==
    PyDict(<< <<PyStr(FnGetAtt), PyList([i \in 1..Len(parts) |-> PyStr(parts[i])])>> >>)

\* C4: under the GetAtt tag a scalar with one "." becomes the two-element
\* list of its halves, a sequence of strings becomes that same list, a
\* sequence with an element that is no string fails with "Fn::GetAtt does not
\* support complex datastructures"; the result is stored under "Fn::GetAtt".
C4_GetAttParsing ==
    (l_tag_suffix = GetAttName /\ l_pc \in {"done", "raised"}) =>
        LET text == NodeValue(l_node)
            dot == IndexOf(text, ".")
            children == NodeValue(l_node)
        IN /\ (KindOf(l_node) = "scalar" /\ Count(text, ".") = 1) =>
                  /\ l_pc = "done"
                  /\ l_data = GetAttMapping(<<SubSeq(text, 1, dot - 1),
                                              SubSeq(text, dot + 1, Len(text))>>)
           /\ (KindOf(l_node) = "sequence"
                   /\ \A i \in 1..Len(children) : IsStringNode(children[i])) =>
                  /\ l_pc = "done"
                  /\ l_data = GetAttMapping([i \in 1..Len(children) |-> NodeValue(children[i])])
           /\ (KindOf(l_node) = "sequence"
                   /\ \E i \in 1..Len(children) : ~IsStringNode(children[i])) =>
                  /\ l_pc = "raised"
                  /\ l_error = Raise("ValueError", GetAttComplexText)

\* the supported tag names in the order of the message
ExpectedSupportedTags ==
    <<<<"A", "n", "d">>,
      <<"B", "a", "s", "e", "6", "4">>,
      <<"C", "i", "d", "r">>,
      <<"C", "o", "n", "d", "i", "t", "i", "o", "n">>,
      <<"E", "q", "u", "a", "l", "s">>,
      <<"F", "i", "n", "d", "I", "n", "M", "a", "p">>,
      <<"G", "e", "t", "A", "Z", "s">>,
      <<"G", "e", "t", "A", "t", "t">>,
      <<"I", "f">>,
      <<"I", "m", "p", "o", "r", "t", "V", "a", "l", "u", "e">>,
      <<"J", "o", "i", "n">>,
      <<"N", "o", "t">>,
      <<"O", "r">>,
      <<"R", "e", "f">>,
      <<"S", "e", "l", "e", "c", "t">>,
      <<"S", "p", "l", "i", "t">>,
      <<"S", "u", "b">>,
      <<"T", "r", "a", "n", "s", "f", "o", "r", "m">>>>

IsSupported(name) == In(name, CFN_TAGS) \/ In(name, CFN_FNS)

\* C5: a tag name in neither CFN_TAGS nor CFN_FNS fails before any mapping is
\* made, with a ValueError that names the tag and lists the supported tag
\* names, each once and none else, in sorted order; a supported tag name never
\* fails with that error.
C5_UnsupportedTagRefused ==
    /\ Len(ExpectedSupportedTags) = Len(CFN_TAGS) + Len(CFN_FNS)
    /\ \A i \in 1..Len(ExpectedSupportedTags) : IsSupported(ExpectedSupportedTags[i])
    /\ \A i, j \in 1..Len(ExpectedSupportedTags) :
           i < j => StrLess(ExpectedSupportedTags[i], ExpectedSupportedTags[j])
    /\ (l_pc \notin {"idle", "called"} /\ ~IsSupported(l_tag_suffix)) =>
           /\ l_pc = "raised"
           /\ l_data = NoData
           /\ l_error = Raise("ValueError",
                              BadTagText \o l_tag_suffix \o SupportedTagsText
                              \o Join(<<",", " ">>, ExpectedSupportedTags))
    /\ (l_pc = "raised" /\ IsSupported(l_tag_suffix)) =>
           ~StartsWith(ExcMsg(l_error), BadTagText)

C5_Witness ==
    /\ l_pc = "raised"
    /\ l_tag_suffix = <<"F", "o", "o">>
    /\ ExcType(l_error) = "ValueError"

(***************************************************************************)
(* Properties of ConsoleWriter, checked under SpecConsole.                 *)
(***************************************************************************)
\* the strings held by a value, at any depth (the keys of a dict are not values)
RECURSIVE StringsOf(_)
StringsOf(x) ==
    IF TypeOf(x) = "str" THEN {ValueOf(x)}
    ELSE IF TypeOf(x) = "list"
         THEN UNION {StringsOf(ValueOf(x)[i]) : i \in 1..Len(ValueOf(x))}
    ELSE IF TypeOf(x) = "dict"
         THEN UNION {StringsOf(ValueOf(x)[i][2]) : i \in 1..Len(ValueOf(x))}
    ELSE {}

\* a mapping or a sequence of primitives
IsCollectionOfPrimitives(x) ==
    \/ TypeOf(x) = "list" /\ \A i \in 1..Len(ValueOf(x)) : IsPrimitive(ValueOf(x)[i])
    \/ TypeOf(x) = "dict" /\ \A i \in 1..Len(ValueOf(x)) : IsPrimitive(ValueOf(x)[i][2])

\* decoding text fails, or gives text back
DecodesNoFurther(text) ==
    ~IsOk(yaml_load(text)) \/ Returned(yaml_load(text)) = PyStr(text)

\* no string of x decodes to a value holding a string that decodes further
DecodedStringsAreStable(x) ==
    \A s \in StringsOf(x) :
        IsOk(yaml_load(s)) =>
            \A t \in StringsOf(Returned(yaml_load(s))) : DecodesNoFurther(t)

\* C3 as stated: preparing a prepared mapping or sequence of primitives once
\* more changes nothing.
C3_Idempotent ==
    (c_pc = "prepared_again" /\ IsCollectionOfPrimitives(c_value)) =>
        c_again = c_prepared

\* C3 amended: preparing a prepared mapping or sequence of primitives once
\* more changes nothing, provided no string of the value decodes to a value
\* holding a string that decodes further.
C3_IdempotentOnStableStrings ==
    (c_pc = "prepared_again" /\ IsCollectionOfPrimitives(c_value)
         /\ DecodedStringsAreStable(c_value)) =>
        c_again = c_prepared

C3_Witness ==
    /\ c_pc = "prepared_again"
    /\ IsCollectionOfPrimitives(c_value)
    /\ DecodedStringsAreStable(c_value)
    /\ c_prepared # c_value
    /\ \E s \in StringsOf(c_value) : ~IsOk(yaml_load(s))

\* prepared is value with each string that decodes replaced by what it decodes
\* to, and everything else as it was
RECURSIVE PreparedFrom(_, _)
PreparedFrom(x, prepared) ==
    IF TypeOf(x) = "dict"
    THEN /\ TypeOf(prepared) = "dict"
         /\ Len(ValueOf(prepared)) = Len(ValueOf(x))
         /\ \A i \in 1..Len(ValueOf(x)) :
                /\ ValueOf(prepared)[i][1] = ValueOf(x)[i][1]
                /\ PreparedFrom(ValueOf(x)[i][2], ValueOf(prepared)[i][2])
    ELSE IF TypeOf(x) = "list"
    THEN /\ TypeOf(prepared) = "list"
         /\ Len(ValueOf(prepared)) = Len(ValueOf(x))
         /\ \A i \in 1..Len(ValueOf(x)) : PreparedFrom(ValueOf(x)[i], ValueOf(prepared)[i])
    ELSE IF TypeOf(x) = "str"
    THEN IF IsOk(yaml_load(ValueOf(x)))
         THEN prepared = Returned(yaml_load(ValueOf(x)))
         ELSE prepared = x
    ELSE prepared = x

\* C9: _prepare_value_for_serialization never raises; a string whose decoding
\* fails, for whatever reason, is kept as it is, and so are the other
\* primitives, the keys of a mapping and the order of a sequence.
C9_NeverRaises ==
    /\ c_pc # "raised"
    /\ c_error = NoError
    /\ c_pc \notin {"idle", "write"} => PreparedFrom(c_value, c_prepared)
    /\ c_pc = "prepared_again" => PreparedFrom(c_prepared, c_again)

\* a list of two strings whose decoding fails with different exceptions
C9_Witness ==
    /\ c_pc = "prepared"
    /\ TypeOf(c_value) = "list"
    /\ Len(ValueOf(c_value)) = 2
    /\ \A i \in 1..2 : TypeOf(ValueOf(c_value)[i]) = "str"
                       /\ ~IsOk(yaml_load(ValueOf(ValueOf(c_value)[i])))
    /\ ExcType(yaml_load(ValueOf(ValueOf(c_value)[1]))) = "ValueError"
    /\ ExcType(yaml_load(ValueOf(ValueOf(c_value)[2]))) = "AttributeError"
    /\ c_prepared = c_value

\* C10: text mode renders by the first rule that matches: a sequence of
\* primitives, one element per line; a sequence of mappings, a table with the
\* keys as headers; a mapping of primitives, a (key, value) table; anything
\* else as YAML mode does; the empty sequence is rendered by the first rule.
AllItems(x, P(_)) == \A i \in 1..Len(ValueOf(x)) : P(ValueOf(x)[i])
IsDict(x) == TypeOf(x) = "dict"
HasPrimitiveValue(pair) == IsPrimitive(pair[2])

KeysOfAll(dicts) ==
    UNION {{ValueOf(dicts[i])[j][1] : j \in 1..Len(ValueOf(dicts[i]))} : i \in 1..Len(dicts)}

C10_TextRendering ==
    (c_format = "text" /\ c_pc \in {"stringified", "returned", "prepared_again"}) =>
        LET x == c_prepared
        IN IF TypeOf(x) = "list" /\ AllItems(x, IsPrimitive)
           THEN /\ c_string[1] = "text"
                /\ c_string[2] = Join(<<NL>>, [i \in 1..Len(ValueOf(x)) |-> str(ValueOf(x)[i])])
                /\ ValueOf(x) = <<>> => c_string[2] = <<>>
           ELSE IF TypeOf(x) = "list" /\ AllItems(x, IsDict)
           THEN /\ c_string[1] = "table"
                /\ {c_string[2][k] : k \in 1..Len(c_string[2])} = KeysOfAll(ValueOf(x))
                /\ Len(c_string[2]) = Cardinality(KeysOfAll(ValueOf(x)))
                /\ Len(c_string[3]) = Len(ValueOf(x))
                /\ \A i \in 1..Len(ValueOf(x)) : \A k \in 1..Len(c_string[2]) :
                       c_string[3][i][k] = Get(ValueOf(ValueOf(x)[i]), c_string[2][k])
           ELSE IF TypeOf(x) = "dict" /\ AllItems(x, HasPrimitiveValue)
           THEN c_string = <<"table",
                             <<PyStr(<<"k", "e", "y">>), PyStr(<<"v", "a", "l", "u", "e">>)>>,
                             ValueOf(x)>>
           ELSE c_string = <<"yaml", x>>

C10_Witness ==
    /\ c_format = "text"
    /\ c_pc = "returned"
    /\ c_prepared = PyList(<<>>)
    /\ c_output = << <<"text", <<>> >> >>

\* the key of the mapping made for a supported tag name
ExpectedKey(name) == IF In(name, CFN_FNS) THEN FnPrefix \o name ELSE name

\* the node decoded according to its shape: a string for a scalar node, a list
\* for a sequence node (nested tags resolved), a mapping for a mapping node;
\* under GetAtt a scalar is the list of its halves
DecodedByShape(name, node) ==
    IF KindOf(node) = "scalar"
    THEN IF name = GetAttName
         THEN Ok(PyList([i \in 1..Len(SplitOnce(NodeValue(node), ".")) |->
                            PyStr(SplitOnce(NodeValue(node), ".")[i])]))
         ELSE construct_scalar(TheLoader, node)
    ELSE IF KindOf(node) = "sequence"
    THEN construct_sequence(TheLoader, node)
    ELSE construct_mapping(TheLoader, node)

OneKeyMapping(name, node) ==
    /\ l_pc = "done"
    /\ l_error = NoError
    /\ IsOk(DecodedByShape(name, node))
    /\ l_data = PyDict(<< <<PyStr(ExpectedKey(name)), Returned(DecodedByShape(name, node))>> >>)

\* C12: for every supported tag name and every node shape, _tag_constructor
\* makes a mapping with exactly one key, "Fn::" + name for a name of CFN_FNS
\* and the name itself for a name of CFN_TAGS, whose value is the node decoded
\* according to its shape.
C12_OneKeyMapping ==
    (IsSupported(l_tag_suffix) /\ l_pc \in {"done", "raised"}) =>
        OneKeyMapping(l_tag_suffix, l_node)

\* C12 for the tag names other than GetAtt: the one-key mapping is made for
\* every node shape
C12_OneKeyMappingOtherTags ==
    (IsSupported(l_tag_suffix) /\ l_tag_suffix # GetAttName /\ l_pc \in {"done", "raised"}) =>
        OneKeyMapping(l_tag_suffix, l_node)

\* C12 under GetAtt: only the scalar node gets its mapping
C12_GetAttScalarOnly ==
    (l_tag_suffix = GetAttName /\ l_pc \in {"done", "raised"}) =>
        IF KindOf(l_node) = "scalar"
        THEN OneKeyMapping(l_tag_suffix, l_node)
        ELSE /\ l_pc = "raised"
             /\ l_data = PyDict(<<>>)
             /\ l_error = Raise("AttributeError", NoConstructSequenceText)

(***************************************************************************)
(* Properties of DeepDiffWriter.dump_diff, checked under SpecDeep.         *)
(***************************************************************************)
\* a key that is a string beginning with 'root'
BeginsWithRoot(key) == TypeOf(key) = "str" /\ StartsWith(ValueOf(key), RootText)

\* a key that is a string beginning with 'rootroot'
BeginsWithRootTwice(key) ==
    TypeOf(key) = "str" /\ StartsWith(ValueOf(key), RootText \o RootText)

\* the key without its leading 'root', if it is a string that has one
WithoutRoot(key) ==
    IF BeginsWithRoot(key)
    THEN PyStr([i \in 1..(Len(ValueOf(key)) - 4) |-> ValueOf(key)[i + 4]])
    ELSE key

\* the keys of x at any depth, through mappings and sequences
RECURSIVE AllKeys(_)
AllKeys(x) ==
    IF TypeOf(x) = "dict"
    THEN {ValueOf(x)[i][1] : i \in 1..Len(ValueOf(x))}
         \cup UNION {AllKeys(ValueOf(x)[i][2]) : i \in 1..Len(ValueOf(x))}
    ELSE IF TypeOf(x) \in {"list", "tuple", "set"}
    THEN UNION {AllKeys(ValueOf(x)[i]) : i \in 1..Len(ValueOf(x))}
    ELSE {}

NoRootKey(x) == \A key \in AllKeys(x) : ~BeginsWithRoot(key)

\* the item of a dict that is the last to get its key once the keys are
\* renamed by F
IsLastUnder(pairs, i, F(_)) ==
    \A j \in (i + 1)..Len(pairs) : F(pairs[j][1]) # F(pairs[i][1])

\* out is the dict whose items are those of pairs renamed by F, a later item
\* replacing an earlier one of the same name, with values related by R
RenamedItems(pairs, out, F(_), R(_, _)) ==
    /\ \A i, j \in 1..Len(out) : i # j => out[i][1] # out[j][1]
    /\ \A i \in 1..Len(pairs) : \E j \in 1..Len(out) : out[j][1] = F(pairs[i][1])
    /\ \A j \in 1..Len(out) : \E i \in 1..Len(pairs) :
           /\ out[j][1] = F(pairs[i][1])
           /\ IsLastUnder(pairs, i, F)
           /\ R(pairs[i][2], out[j][2])

\* stripped is obj with one leading 'root' taken off each string key reached
\* through dicts and lists, and nothing else changed
RECURSIVE StrippedFrom(_, _)
StrippedFrom(obj, stripped) ==
    IF TypeOf(obj) = "dict"
    THEN /\ TypeOf(stripped) = "dict"
         /\ RenamedItems(ValueOf(obj), ValueOf(stripped), WithoutRoot, StrippedFrom)
    ELSE IF TypeOf(obj) = "list"
    THEN /\ TypeOf(stripped) = "list"
         /\ Len(ValueOf(stripped)) = Len(ValueOf(obj))
         /\ \A i \in 1..Len(ValueOf(obj)) : StrippedFrom(ValueOf(obj)[i], ValueOf(stripped)[i])
    ELSE stripped = obj

\* the name JSON gives a key
NameOf(key) == PyStr(json_key(key))

\* parsed is what JSON keeps of x: keys as strings, tuples and sets as lists
RECURSIVE ParsedFrom(_, _)
ParsedFrom(x, parsed) ==
    IF TypeOf(x) = "dict"
    THEN /\ TypeOf(parsed) = "dict"
         /\ RenamedItems(ValueOf(x), ValueOf(parsed), NameOf, ParsedFrom)
    ELSE IF TypeOf(x) \in {"list", "tuple", "set"}
    THEN /\ TypeOf(parsed) = "list"
         /\ Len(ValueOf(parsed)) = Len(ValueOf(x))
         /\ \A i \in 1..Len(ValueOf(x)) : ParsedFrom(ValueOf(x)[i], ValueOf(parsed)[i])
    ELSE parsed = x

\* a key of obj that still begins with 'root' after the stripping: one that
\* began with 'rootroot', or one inside a tuple or a set, where the stripping
\* does not reach
RECURSIVE RootKeyLeft(_)
RootKeyLeft(obj) ==
    IF TypeOf(obj) = "dict"
    THEN \E i \in 1..Len(ValueOf(obj)) :
             /\ IsLastUnder(ValueOf(obj), i, WithoutRoot)
             /\ \/ RootKeyLeft(ValueOf(obj)[i][2])
                \/ \E j \in 1..i : /\ WithoutRoot(ValueOf(obj)[j][1]) = WithoutRoot(ValueOf(obj)[i][1])
                                   /\ BeginsWithRootTwice(ValueOf(obj)[j][1])
    ELSE IF TypeOf(obj) = "list"
    THEN \E i \in 1..Len(ValueOf(obj)) : RootKeyLeft(ValueOf(obj)[i])
    ELSE ~NoRootKey(obj)

\* C11 as stated: in JSON mode, the output parsed back has no key at any
\* depth that begins with 'root', and the stripping leaves non-string keys
\* and the values that are neither mappings nor lists as they were.
C11_NoKeyKeepsRoot ==
    /\ d_pc \notin {"idle", "dump_diff"} => StrippedFrom(d_diff, d_stripped)
    /\ d_pc = "parsed" => NoRootKey(d_parsed)

\* C11 amended: the stripping takes one leading 'root' off each string key
\* reached through dicts and lists and changes nothing else; the JSON output
\* parsed back holds the stripped diff with its keys as strings and its tuples
\* and sets as lists; so a key of it begins with 'root' exactly when a key of
\* the diff began with 'rootroot' or lay inside a tuple or set.
C11_OneRootStrippedPerKey ==
    /\ d_pc \notin {"idle", "dump_diff"} => StrippedFrom(d_diff, d_stripped)
    /\ d_pc = "parsed" =>
           /\ d_output_format = "json"
           /\ ParsedFrom(d_stripped, d_parsed)
           /\ NoRootKey(d_parsed) <=> ~RootKeyLeft(d_diff)

\* a path key whose list holds a dict with a path key and an int key, parsed
\* back with no 'root' left
C11_Witness ==
    /\ d_pc = "parsed"
    /\ Len(ValueOf(d_diff)) = 1
    /\ BeginsWithRoot(ValueOf(d_diff)[1][1])
    /\ TypeOf(ValueOf(d_diff)[1][2]) = "list"
    /\ \E key \in AllKeys(ValueOf(d_diff)[1][2]) : BeginsWithRoot(key)
    /\ \E key \in AllKeys(ValueOf(d_diff)[1][2]) : TypeOf(key) = "int"
    /\ NoRootKey(d_parsed)
    /\ ~NoRootKey(d_diff)

(***************************************************************************)
(* Specifications.                                                         *)
(***************************************************************************)
DiffNext ==
    \/ WriteStarBar
    \/ WriteNoDifference
    \/ WriteDifferenceDetected
    \/ WriteNewStackDetails
    \/ WriteConfigBar
    \/ WriteConfigDifference
    \/ WriteTemplateBar
    \/ WriteTemplateDifference
    \/ OutputToStream

\* a DiffLibWriter made and write() called on it
InitDiff == DiffInit /\ LoaderIdle /\ ConsoleIdle /\ DeepIdle
SpecDiff == InitDiff /\ [][DiffNext]_vars

LoaderNext ==
    \/ TagConstructorStart
    \/ TagConstructorResume

\* _tag_constructor called by the loader on a tagged node
InitLoader == LoaderInit /\ DiffIdle /\ ConsoleIdle /\ DeepIdle
SpecLoader == InitLoader /\ [][LoaderNext]_vars

ConsoleNext ==
    \/ ConsolePrepare
    \/ ConsoleStringify
    \/ ConsoleOutput
    \/ ConsolePrepareAgain

\* a ConsoleWriter made and write() called on it
InitConsole == ConsoleInit /\ DiffIdle /\ LoaderIdle /\ DeepIdle
SpecConsole == InitConsole /\ [][ConsoleNext]_vars

DeepNext ==
    \/ RemoveRootKeyPrefixes
    \/ Jsonify
    \/ ReturnJson
    \/ ReturnYaml
    \/ ParseBack

\* a DeepDiffWriter made and dump_diff() called on it
InitDeep == DeepInit /\ DiffIdle /\ LoaderIdle /\ ConsoleIdle
SpecDeep == InitDeep /\ [][DeepNext]_vars

====
